---- MODULE Spec2Model ----
(***************************************************************************)
(* Neural style transfer (src/style_transfer.py): load_image, gram_matrix, *)
(* StyleTransferModel.forward and run_style_transfer.                      *)
(*                                                                         *)
(* Numbers.  A float is an integer in fixed point, or the one non-finite   *)
(* value NaN (Inf and NaN are not told apart: both are "not finite" and    *)
(* both absorb).  Image tensors are in units of 1/2550, so that both       *)
(* ToTensor's p/255 (= 10p units) and Adam's lr = 0.02 (= 51 units) are    *)
(* exact.  The finite range is [-FMax, FMax]; a result outside it is NaN,  *)
(* as a float32 result outside +-3.4e38 is Inf.                            *)
(*                                                                         *)
(* Pixels.  Input images are solid colour: every pixel of every band has   *)
(* the same 8-bit level.  Resizing a solid image gives a solid image, so   *)
(* an image tensor is its size and one value per channel.                  *)
(*                                                                         *)
(* Libraries.  torchvision's VGG19, autograd and torch.optim.Adam are not  *)
(* code of the repository; they are modelled by small deterministic        *)
(* stand-ins (see vgg_layer, backward, adam_step).                         *)
(***************************************************************************)
EXTENDS Integers, Sequences, FiniteSets, TLC

VARIABLES
    pc,                 \* position in run_style_transfer
    content_img,        \* argument: the content input
    style_img,          \* argument: the style input
    num_steps,          \* argument
    style_weight,       \* argument
    content_weight,     \* argument
    max_dimension,      \* keyword argument max_dimension the caller passes, or NotPassed
    heap,               \* tensor storages: storage id -> data
    content,            \* tensor handle (line 49)
    style,              \* tensor handle (line 50)
    generated,          \* tensor handle (line 51)
    vgg,                \* the extractor's parameters (line 30, 34-35)
    optimizer,          \* optim.Adam([generated], lr=0.02) (line 54)
    style_features,     \* line 56
    content_features,   \* line 57
    style_grams,        \* line 58
    generated_features, \* line 61
    content_loss,       \* line 63
    style_loss,         \* line 65-71
    total_loss,         \* line 73
    step,               \* the loop variable of line 60 (iterations started)
    final_img,          \* line 79-80
    error,              \* the exception that left run_style_transfer, or "none"
    hist,               \* history: what has happened in this invocation
    lin,                \* load_image on its own: the arguments
    lout,               \* load_image on its own: the result
    gin,                \* gram_matrix on its own: the argument
    gout,               \* gram_matrix on its own: the result
    runs,               \* two invocations in one process: the locals of each
    mem,                \* two invocations in one process: the tensor storages
    build,              \* how this build casts an out-of-range float to a byte
    items,              \* gallery page (src/app.py): const items, the thumbnail records
    curIndex,           \* gallery page: let curIndex (line 332)
    modal,              \* gallery page: class and aria-hidden of the element mModal
    shown,              \* gallery page: what the elements of the modal display
    event,              \* gallery page: the DOM event dispatched last
    selected,           \* fetch loop (src/app.py): the figure chosen in the selectbox
    max_results,        \* fetch loop: the cap passed to met_search_ids
    aliases,            \* fetch loop: generate_aliases(selected)
    alias_i,            \* fetch loop: aliases taken by the outer loop so far
    ids,                \* fetch loop: the search result of the current alias
    id_j,               \* fetch loop: elements of ids taken by the inner loop so far
    all_ids,            \* fetch loop: the accumulated object IDs
    fetch_pc            \* fetch loop: position in the button handler

runVars == <<pc, content_img, style_img, num_steps, style_weight, content_weight,
             max_dimension, heap, content, style, generated, vgg, optimizer, style_features,
             content_features, style_grams, generated_features, content_loss,
             style_loss, total_loss, step, final_img, error, hist>>
loadVars == <<lin, lout>>
gramVars == <<gin, gout>>
pairVars == <<runs, mem, build>>
modalVars == <<items, curIndex, modal, shown, event>>
fetchVars == <<selected, max_results, aliases, alias_i, ids, id_j, all_ids, fetch_pc>>
appVars == <<modalVars, fetchVars>>
vars == <<runVars, loadVars, gramVars, pairVars, appVars>>

----------------------------------------------------------------------------
(* Bounds of the model *)

MaxSteps == 2        \* num_steps is drawn from 0..MaxSteps
MaxImgDim == 2       \* input images are 1 x 1, 1 x MaxImgDim or MaxImgDim x 1
MaxLoadDim == 5      \* load_image on its own: h, w in 1..MaxLoadDim
MaxBound == 4        \* load_image on its own: max_size in 1..MaxBound
MaxGramDim == 2      \* gram_matrix on its own: channels, h, w in 1..MaxGramDim
MaxGramElems == 8    \* gram_matrix on its own: at most this many elements
MaxPairSteps == 1    \* two invocations: num_steps of each is drawn from 0..MaxPairSteps
FMax == 1000000000   \* the largest finite float of the model
TanScale == 1        \* fixed-point resolution of derivatives

(* Program constants *)

DefaultMaxSize == 512           \* load_image(img, max_size=512, ...)
DefaultNumSteps == 200          \* num_steps=200
DefaultStyleWeight == 1000000   \* style_weight=1e6
DefaultContentWeight == 1       \* content_weight=1
KeptChannels == 3               \* transform(img)[:3, :, :]
LrUnits == 51                   \* lr=0.02, in units of 1/2550
PixelUnits == 10                \* ToTensor: p/255, in units of 1/2550

----------------------------------------------------------------------------
(* Floats *)

NaN == FMax + 1
Finite(x) == x # NaN
Abs(x) == IF x < 0 THEN -x ELSE x
Sign(x) == IF x > 0 THEN 1 ELSE IF x < 0 THEN -1 ELSE 0
Round(x) == IF x > FMax \/ x < -FMax THEN NaN ELSE x

FAdd(a, b) == IF ~Finite(a) \/ ~Finite(b) THEN NaN ELSE Round(a + b)
FSub(a, b) == IF ~Finite(a) \/ ~Finite(b) THEN NaN ELSE Round(a - b)
FMul(a, b) ==
    IF ~Finite(a) \/ ~Finite(b) THEN NaN
    ELSE IF a = 0 \/ b = 0 THEN 0
    ELSE IF Abs(a) > FMax \div Abs(b) THEN NaN
    ELSE a * b
\* a / n for a count n > 0, rounded toward zero
FDiv(a, n) == IF ~Finite(a) THEN NaN ELSE Sign(a) * (Abs(a) \div n)

RECURSIVE FSum(_)
FSum(s) == IF s = <<>> THEN 0 ELSE FAdd(Head(s), FSum(Tail(s)))

RECURSIVE Prod(_)
Prod(s) == IF s = <<>> THEN 1 ELSE Head(s) * Prod(Tail(s))

\* torch.mean of a flat sequence of floats
Mean(s) == FDiv(FSum(s), Len(s))

----------------------------------------------------------------------------
(* Inputs: what a caller can hand to load_image *)

\* A decoded PIL image: bands (L = 1, RGB = 3, RGBA = 4), height, width and
\* the level every pixel has.  Anything else (text bytes) is not an image.
Levels == {0, 255}
Bands == {1, 3, 4}
NotAnImage == [image |-> FALSE, bands |-> 0, h |-> 0, w |-> 0, level |-> 0]
PilImage(b, h, w, p) == [image |-> TRUE, bands |-> b, h |-> h, w |-> w, level |-> p]

\* A tensor value: its size, its elements (an image tensor: one per channel; any
\* other tensor: all of them, row-major) and, per element, its derivative with
\* respect to the tracked input (the autograd graph), in units of 1/TanScale.
\* A call that raises returns Raised(exception name) instead.
NoTensor == [ok |-> FALSE, err |-> "none", size |-> <<>>, data |-> <<>>, tan |-> <<>>]
Raised(e) == [ok |-> FALSE, err |-> e, size |-> <<>>, data |-> <<>>, tan |-> <<>>]
TensorG(size, data, tan) ==
    [ok |-> TRUE, err |-> "none", size |-> size, data |-> <<>> \o data, tan |-> <<>> \o tan]
Tensor(size, data) == TensorG(size, data, [i \in DOMAIN data |-> 0])

----------------------------------------------------------------------------
(* load_image, lines 9-17 *)

\* transforms.Resize(size) with an int: the SMALLER edge becomes size and the
\* other edge int(size * long / short)
ResizeInt(h, w, size) ==
    IF w <= h THEN <<(size * h) \div w, size>> ELSE <<size, (size * w) \div h>>

\* transforms.ToTensor on one 8-bit level: p / 255
ToTensor(p) == PixelUnits * p

Min(a, b) == IF a <= b THEN a ELSE b
Max(a, b) == IF a >= b THEN a ELSE b

\* load_image without lines 15-16
LoadImageIgnoringShape(img, max_size, shape) ==
    IF ~img.image THEN Raised("TypeError")
    ELSE
        LET hw == ResizeInt(img.h, img.w, max_size)
            c == Min(KeptChannels, img.bands)
        IN  Tensor(<<1, c, hw[1], hw[2]>>, [i \in 1..c |-> ToTensor(img.level)])

\* load_image(img, max_size, shape); shape = <<>> stands for None (and for [],
\* which "if shape:" treats alike)
load_image(img, max_size, shape) ==
    IF ~img.image THEN Raised("TypeError")       \* line 14: transform(img) raises
    ELSE
        LET hw == ResizeInt(img.h, img.w, max_size)                \* line 11
            c == Min(KeptChannels, img.bands)                        \* line 14, [:3]
            data == [i \in 1..c |-> ToTensor(img.level)]           \* line 12
            image == Tensor(<<1, c, hw[1], hw[2]>>, data)          \* unsqueeze(0)
        IN  IF shape # <<>>                                          \* line 15
            THEN Tensor(<<1, c, shape[1], shape[2]>>, data)        \* line 16
            ELSE image

----------------------------------------------------------------------------
(* gram_matrix, lines 20-24 *)

\* element (i, p) of an (n, hw) view of a flat sequence
At(d, hw, i, p) == d[(i - 1) * hw + p]

\* a Gram matrix divided by the number of elements
GramNormalised(tensor) ==
    IF Len(tensor.size) # 4 THEN Raised("ValueError")
    ELSE
        LET n == tensor.size[2]
            hw == tensor.size[3] * tensor.size[4]
            ij(k) == <<((k - 1) \div n) + 1, ((k - 1) % n) + 1>>
        IN  IF n * hw # Prod(tensor.size) THEN Raised("RuntimeError")
            ELSE Tensor(<<n, n>>,
                    [k \in 1..(n * n) |->
                        FDiv(FSum([p \in 1..hw |->
                                FMul(At(tensor.data, hw, ij(k)[1], p),
                                     At(tensor.data, hw, ij(k)[2], p))]),
                             n * hw)])

gram_matrix(tensor) ==
    IF Len(tensor.size) # 4 THEN Raised("ValueError")       \* line 21: unpacking
    ELSE
        LET n_filters == tensor.size[2]
            hw == tensor.size[3] * tensor.size[4]
        IN  IF n_filters * hw # Prod(tensor.size)             \* line 22: view
            THEN Raised("RuntimeError")
            ELSE
                LET t == tensor.data
                    d == tensor.tan
                    ij(k) == <<((k - 1) \div n_filters) + 1, ((k - 1) % n_filters) + 1>>
                    \* line 23: torch.mm(t, t.t())
                    gram == [k \in 1..(n_filters * n_filters) |->
                        FSum([p \in 1..hw |->
                            FMul(At(t, hw, ij(k)[1], p), At(t, hw, ij(k)[2], p))])]
                    \* what autograd records for it: the product rule
                    dgram == [k \in 1..(n_filters * n_filters) |->
                        FSum([p \in 1..hw |->
                            FAdd(FMul(At(d, hw, ij(k)[1], p), At(t, hw, ij(k)[2], p)),
                                 FMul(At(t, hw, ij(k)[1], p), At(d, hw, ij(k)[2], p)))])]
                IN  TensorG(<<n_filters, n_filters>>, gram, dgram)

----------------------------------------------------------------------------
(* StyleTransferModel, lines 27-43 *)

style_layers == <<"0", "5", "10", "19", "28">>      \* line 31
content_layers == <<"21">>                            \* line 32

\* self.vgg._modules, in order: the 37 modules of torchvision's vgg19().features
VggModules ==
    <<"0", "1", "2", "3", "4", "5", "6", "7", "8", "9", "10", "11", "12", "13",
      "14", "15", "16", "17", "18", "19", "20", "21", "22", "23", "24", "25",
      "26", "27", "28", "29", "30", "31", "32", "33", "34", "35", "36">>
ConvModules ==
    {"0", "2", "5", "7", "10", "12", "14", "16", "19", "21", "23", "25", "28",
     "30", "32", "34"}
PoolModules == {"4", "9", "18", "27", "36"}
\* every other module is nn.ReLU(inplace=True)

Range(s) == {s[i] : i \in DOMAIN s}

\* The stand-in network.  Activations are summarised as FeatFilters filters at
\* FeatPositions sample positions; the weights are fixed positive integers.
FeatSize == <<1, 2, 1, 1>>
FeatFilters == FeatSize[2]
FeatPositions == FeatSize[3] * FeatSize[4]
FeatIdx == 1..(FeatFilters * FeatPositions)
FiltOf(k) == ((k - 1) \div FeatPositions) + 1
PosOf(k) == ((k - 1) % FeatPositions) + 1
IdxOf(f, p) == (f - 1) * FeatPositions + p
Weight0(f, p) == 1 + f
ActDen == KeptChannels * PixelUnits * 255

\* Frozen parameters: the weights and their requires_grad flags (lines 30, 34-35)
VggInit == [weights |-> [k \in FeatIdx |-> Weight0(FiltOf(k), PosOf(k))],
            requires_grad |-> FALSE, training |-> FALSE]

\* the first convolution: 3 input channels, or conv2d raises
Conv0(w, x, tracked) ==
    IF x.size[2] # KeptChannels THEN Raised("RuntimeError")
    ELSE
        LET s == FSum(x.data)
        IN  TensorG(FeatSize,
                    [k \in FeatIdx |-> FDiv(FMul(w[k], s), ActDen)],
                    [k \in FeatIdx |-> IF tracked THEN w[k] * TanScale ELSE 0])

\* a later convolution: mixes the filters (here: rotates them by one)
ConvN(x) ==
    LET src(k) == IdxOf((FiltOf(k) % FeatFilters) + 1, PosOf(k))
    IN  TensorG(x.size, [k \in FeatIdx |-> x.data[src(k)]],
                        [k \in FeatIdx |-> x.tan[src(k)]])

\* max pooling: the larger of two neighbouring positions
Pool(x) ==
    LET nb(k) == IdxOf(FiltOf(k), (PosOf(k) % FeatPositions) + 1)
        pick == [k \in FeatIdx |->
                    LET a == x.data[k]
                        b == x.data[nb(k)]
                    IN  IF ~Finite(a) THEN k
                        ELSE IF ~Finite(b) THEN nb(k)
                        ELSE IF b > a THEN nb(k) ELSE k]
    IN  TensorG(x.size, [k \in FeatIdx |-> x.data[pick[k]]],
                        [k \in FeatIdx |-> x.tan[pick[k]]])

\* ReLU; the fixed-point 0 stands for [0, 1), where the gate is open
Relu(x) ==
    LET cut == [k \in DOMAIN x.data |->
                   LET a == x.data[k] IN Finite(a) /\ a < 0]
    IN  TensorG(x.size,
                [k \in DOMAIN x.data |-> IF cut[k] THEN 0 ELSE x.data[k]],
                [k \in DOMAIN x.data |-> IF cut[k] THEN 0 ELSE x.tan[k]])

\* layer(x) of line 40 for the module called name
vgg_layer(w, name, x, tracked) ==
    IF name = "0" THEN Conv0(w, x, tracked)
    ELSE IF name \in ConvModules THEN ConvN(x)
    ELSE IF name \in PoolModules THEN Pool(x)
    ELSE Relu(x)

\* a test that retains the style layers alone
RetainedStyleOnly(name) == name \in Range(style_layers)
Retained(name) == name \in Range(style_layers \o content_layers)     \* line 41

NoFeatures == [n \in {} |-> NoTensor]

\* lines 40-42: the loop body for module i.  The state s of the loop of line 39
\* is x, the features kept so far, and the exception that left the loop (with
\* the module whose layer(x) raised it).  features maps the retained names to
\* tensors; alias is the key whose tensor is the object x itself (an in-place
\* ReLU changes both).
ForwardStep(i, w, tracked, s) ==
    LET name == VggModules[i]
        inplace == name \notin ConvModules /\ name \notin PoolModules /\ name # "0"
        y == vgg_layer(w, name, s.x, tracked)                     \* line 40
        f1 == IF inplace /\ s.alias # ""
              THEN [s.features EXCEPT ![s.alias] = y] ELSE s.features
        f2 == IF Retained(name)                                    \* line 41
              THEN [n \in DOMAIN f1 \cup {name} |->
                        IF n = name THEN y ELSE f1[n]]             \* line 42
              ELSE f1
        a2 == IF Retained(name) THEN name
              ELSE IF inplace THEN s.alias ELSE ""
    IN  IF ~y.ok       \* the exception leaves layer(x) of module `name`
        THEN [s EXCEPT !.ok = FALSE, !.err = y.err, !.layer = name]
        ELSE [s EXCEPT !.x = y, !.features = f2, !.alias = a2]

\* line 39: the modules from the i-th on, in order, from loop state s
RECURSIVE ForwardFrom(_, _, _, _)
ForwardFrom(i, w, tracked, s) ==
    IF ~s.ok \/ i > Len(VggModules) THEN s
    ELSE ForwardFrom(i + 1, w, tracked, ForwardStep(i, w, tracked, s))

\* line 43: what forward hands back from the loop state it ended in, the
\* features or the exception and the module whose layer(x) raised it
Returned(s) == [ok |-> s.ok, err |-> s.err, layer |-> s.layer, features |-> s.features]

\* lines 37-43: the loop starts from x with features = {}
forward(w, x, tracked) ==
    Returned(ForwardFrom(1, w, tracked,
                         [ok |-> TRUE, err |-> "none", layer |-> "", x |-> x,
                          features |-> NoFeatures, alias |-> ""]))

----------------------------------------------------------------------------
(* The losses of one Step, lines 63-73, and what backward() derives from them *)

HasKey(features, key) == key \in DOMAIN features

Sq(x) == FMul(x, x)

\* line 63: torch.mean((generated_features['21'] - content_features['21']) ** 2)
ContentLossOf(gf, cf) ==
    Mean([k \in DOMAIN gf["21"].data |-> Sq(FSub(gf["21"].data[k], cf["21"].data[k]))])

\* line 67-70: one layer's term
LayerLoss(gf, grams, layer) ==
    LET gen_gram == gram_matrix(gf[layer])                     \* line 68
        style_gram == grams[layer]                               \* line 69
    IN  Mean([k \in DOMAIN gen_gram.data |->
                 Sq(FSub(gen_gram.data[k], style_gram.data[k]))])   \* line 70

\* lines 65-71: style_loss = 0; for layer in model.style_layers: style_loss += ...
RECURSIVE StyleLossOver(_, _, _)
StyleLossOver(layers, gf, grams) ==
    IF layers = <<>> THEN 0
    ELSE LET n == Len(layers)
         IN  FAdd(StyleLossOver(SubSeq(layers, 1, n - 1), gf, grams),
                  LayerLoss(gf, grams, layers[n]))
\* a loop that misses the last style layer
StyleLossSkipping(gf, grams) ==
    StyleLossOver(SubSeq(style_layers, 1, Len(style_layers) - 1), gf, grams)
StyleLossOf(gf, grams) == StyleLossOver(style_layers, gf, grams)

\* line 73
TotalLossOf(cw, cl, sw, sl) == FAdd(FMul(cw, cl), FMul(sw, sl))

\* line 76, total_loss.backward(): the derivative of total_loss with respect to
\* each element of generated, by the chain rule over the recorded graph
DContentLoss(gf, cf) ==
    Mean([k \in DOMAIN gf["21"].data |->
             FMul(2, FMul(FSub(gf["21"].data[k], cf["21"].data[k]), gf["21"].tan[k]))])
DLayerLoss(gf, grams, layer) ==
    LET gen_gram == gram_matrix(gf[layer])
    IN  Mean([k \in DOMAIN gen_gram.data |->
                 FMul(2, FMul(FSub(gen_gram.data[k], grams[layer].data[k]),
                              gen_gram.tan[k]))])
RECURSIVE DStyleLossOver(_, _, _)
DStyleLossOver(layers, gf, grams) ==
    IF layers = <<>> THEN 0
    ELSE FAdd(DLayerLoss(gf, grams, Head(layers)),
              DStyleLossOver(Tail(layers), gf, grams))
backward(cw, sw, gf, cf, grams) ==
    FAdd(FMul(cw, DContentLoss(gf, cf)),
         FMul(sw, DStyleLossOver(style_layers, gf, grams)))

\* line 77, optimizer.step(): Adam moves each element by lr against the sign of
\* its gradient (its bias-corrected first step; a zero gradient moves nothing,
\* a non-finite gradient or value gives a non-finite value)
adam_step(x, g, lr) ==
    IF ~Finite(x) \/ ~Finite(g) THEN NaN ELSE FSub(x, lr * Sign(g))

----------------------------------------------------------------------------
(* run_style_transfer, lines 46-82 *)

NoHandle == [ref |-> 0, size |-> <<>>, requires_grad |-> FALSE, grad |-> <<>>]
Handle(ref, size) == [ref |-> ref, size |-> size, requires_grad |-> FALSE, grad |-> <<>>]
Storages == 1..3
ValueOf(h, hp) == Tensor(h.size, hp[h.ref])

\* Tensor.requires_grad_(flag), line 51
RequiresGradIgnored(h, flag) == h
requires_grad_(h, flag) == [h EXCEPT !.requires_grad = flag]

\* a clone that shares its source's storage
CloneAlias(src, fresh) == src
\* the storage content.clone() gets: a fresh one
CloneStorage(src, fresh) == fresh

RunDims == {<<1, 1>>, <<1, MaxImgDim>>, <<MaxImgDim, 1>>}
RunInputs ==
    {NotAnImage} \cup
    {PilImage(b, hw[1], hw[2], p) : b \in Bands, hw \in RunDims, p \in Levels}

NoImage == [image |-> FALSE, bands |-> 0, h |-> 0, w |-> 0, levels |-> <<>>]

\* What has happened so far: Steps completed, the Step at which a loss was first
\* not finite (0: none), the extractor calls in order, the module of the
\* extractor an exception came from ("": none), the Gram matrices computed
\* of style and of generated, and the tensors Finalize went through.
NoHistory == [steps_done |-> 0, diverged_at |-> 0, calls |-> <<>>, raised_in |-> "",
              grams |-> 0, gen_grams |-> 0, finalize |-> <<>>]

\* The signature of line 46: the parameters after the two images, with defaults
Defaults == [num_steps |-> DefaultNumSteps, style_weight |-> DefaultStyleWeight,
             content_weight |-> DefaultContentWeight]
Parameters == {"content_img", "style_img"} \cup DOMAIN Defaults
NotPassed == 0
PassedBounds == {NotPassed, DefaultMaxSize \div 2}

RunInit ==
    /\ pc = "call"
    /\ max_dimension \in PassedBounds
    /\ content_img \in RunInputs
    /\ style_img \in RunInputs
    /\ num_steps \in 0..MaxSteps
    /\ style_weight \in {DefaultStyleWeight, FMax}
    /\ content_weight = DefaultContentWeight
    /\ heap = [r \in Storages |-> <<>>]
    /\ content = NoHandle
    /\ style = NoHandle
    /\ generated = NoHandle
    /\ vgg = VggInit
    /\ optimizer = [params |-> <<>>, lr |-> 0, t |-> 0]
    /\ style_features = NoFeatures
    /\ content_features = NoFeatures
    /\ style_grams = NoFeatures
    /\ generated_features = NoFeatures
    /\ content_loss = 0
    /\ style_loss = 0
    /\ total_loss = 0
    /\ step = 0
    /\ final_img = NoImage
    /\ error = "none"
    /\ hist = NoHistory

args == <<content_img, style_img, num_steps, style_weight, content_weight, max_dimension>>

Raise(e) == pc' = "raised" /\ error' = e

\* line 46: the call binds its arguments to the parameters; a keyword that is
\* not a parameter raises TypeError before the body runs
Call ==
    /\ pc = "call"
    /\ IF max_dimension # NotPassed /\ "max_dimension" \notin Parameters
       THEN Raise("TypeError")
       ELSE pc' = "load_content" /\ UNCHANGED error
    /\ UNCHANGED <<loadVars, gramVars, pairVars, appVars, args, heap, content, style, generated, vgg, optimizer,
                   style_features, content_features, style_grams, generated_features,
                   content_loss, style_loss, total_loss, step, final_img, hist>>

\* line 49: content = load_image(content_img).to(device)
LoadContent ==
    /\ pc = "load_content"
    /\ LET t == load_image(content_img, DefaultMaxSize, <<>>)
       IN  IF ~t.ok
           THEN /\ Raise(t.err)
                /\ UNCHANGED <<heap, content>>
           ELSE /\ content' = Handle(1, t.size)
                /\ heap' = [heap EXCEPT ![1] = t.data]
                /\ pc' = "load_style"
                /\ UNCHANGED error
    /\ UNCHANGED <<loadVars, gramVars, pairVars, appVars, args, style, generated, vgg, optimizer, style_features, content_features,
                   style_grams, generated_features, content_loss, style_loss,
                   total_loss, step, final_img, hist>>

\* line 50: style = load_image(style_img, shape=[content.size(2), content.size(3)])
LoadStyle ==
    /\ pc = "load_style"
    /\ LET t == load_image(style_img, DefaultMaxSize, <<content.size[3], content.size[4]>>)
       IN  IF ~t.ok
           THEN /\ Raise(t.err)
                /\ UNCHANGED <<heap, style>>
           ELSE /\ style' = Handle(2, t.size)
                /\ heap' = [heap EXCEPT ![2] = t.data]
                /\ pc' = "clone"
                /\ UNCHANGED error
    /\ UNCHANGED <<loadVars, gramVars, pairVars, appVars, args, content, generated, vgg, optimizer, style_features, content_features,
                   style_grams, generated_features, content_loss, style_loss,
                   total_loss, step, final_img, hist>>

\* lines 51-54: generated = content.clone().requires_grad_(True); the model;
\* optimizer = optim.Adam([generated], lr=0.02)
Setup ==
    /\ pc = "clone"
    /\ LET ref == CloneStorage(content.ref, 3)
       IN  /\ generated' = requires_grad_(Handle(ref, content.size), TRUE)
           /\ heap' = [heap EXCEPT ![ref] = heap[content.ref]]
           /\ optimizer' = [params |-> <<ref>>, lr |-> LrUnits, t |-> 0]
    /\ pc' = "style_features"
    /\ UNCHANGED <<loadVars, gramVars, pairVars, appVars, args, content, style, vgg, style_features, content_features,
                   style_grams, generated_features, content_loss, style_loss,
                   total_loss, step, final_img, error, hist>>

\* line 56: style_features = model(style)
StyleFeatures ==
    /\ pc = "style_features"
    /\ LET r == forward(vgg.weights, ValueOf(style, heap), style.requires_grad)
       IN  /\ IF ~r.ok
              THEN Raise(r.err) /\ UNCHANGED style_features
              ELSE /\ style_features' = r.features
                   /\ pc' = "content_features"
                   /\ UNCHANGED error
           /\ hist' = [hist EXCEPT !.calls = Append(@, "style"), !.raised_in = r.layer]
    /\ UNCHANGED <<loadVars, gramVars, pairVars, appVars, args, heap, content, style, generated, vgg, optimizer,
                   content_features, style_grams, generated_features, content_loss,
                   style_loss, total_loss, step, final_img>>

\* line 57: content_features = model(content)
ContentFeatures ==
    /\ pc = "content_features"
    /\ LET r == forward(vgg.weights, ValueOf(content, heap), content.requires_grad)
       IN  /\ IF ~r.ok
              THEN Raise(r.err) /\ UNCHANGED content_features
              ELSE /\ content_features' = r.features
                   /\ pc' = "style_grams"
                   /\ UNCHANGED error
           /\ hist' = [hist EXCEPT !.calls = Append(@, "content"), !.raised_in = r.layer]
    /\ UNCHANGED <<loadVars, gramVars, pairVars, appVars, args, heap, content, style, generated, vgg, optimizer,
                   style_features, style_grams, generated_features, content_loss,
                   style_loss, total_loss, step, final_img>>

\* line 58: style_grams = {layer: gram_matrix(style_features[layer]) for layer in ...}
StyleGrams ==
    /\ pc = "style_grams"
    /\ IF \E l \in Range(style_layers) : ~HasKey(style_features, l)
       THEN Raise("KeyError") /\ UNCHANGED <<style_grams, hist>>
       ELSE /\ style_grams' = [l \in Range(style_layers) |-> gram_matrix(style_features[l])]
            /\ hist' = [hist EXCEPT !.grams = @ + Len(style_layers)]
            /\ pc' = "loop"
            /\ UNCHANGED error
    /\ UNCHANGED <<loadVars, gramVars, pairVars, appVars, args, heap, content, style, generated, vgg, optimizer,
                   style_features, content_features, generated_features, content_loss,
                   style_loss, total_loss, step, final_img>>

\* range(num_steps) has another element after `done` iterations
RangeHasNextInclusive(done, n) == done <= n
RangeSkipsFirst(done, n) == done + 1 < n
RangeHasNext(done, n) == done < n

\* line 60: for step in range(num_steps)
LoopTest ==
    /\ pc = "loop"
    /\ IF RangeHasNext(step, num_steps)
       THEN step' = step + 1 /\ pc' = "forward"
       ELSE step' = step /\ pc' = "finalize"
    /\ UNCHANGED <<loadVars, gramVars, pairVars, appVars, args, heap, content, style, generated, vgg, optimizer,
                   style_features, content_features, style_grams, generated_features,
                   content_loss, style_loss, total_loss, final_img, error, hist>>

\* line 61: generated_features = model(generated)
Forward ==
    /\ pc = "forward"
    /\ LET r == forward(vgg.weights, ValueOf(generated, heap), generated.requires_grad)
       IN  /\ IF ~r.ok
              THEN Raise(r.err) /\ UNCHANGED generated_features
              ELSE /\ generated_features' = r.features
                   /\ pc' = "losses"
                   /\ UNCHANGED error
           /\ hist' = [hist EXCEPT !.calls = Append(@, "generated"), !.raised_in = r.layer]
    /\ UNCHANGED <<loadVars, gramVars, pairVars, appVars, args, heap, content, style, generated, vgg, optimizer,
                   style_features, content_features, style_grams, content_loss,
                   style_loss, total_loss, step, final_img>>

\* lines 63-73: content_loss, style_loss, total_loss
Losses ==
    /\ pc = "losses"
    /\ IF \/ ~HasKey(generated_features, "21") \/ ~HasKey(content_features, "21")
          \/ \E l \in Range(style_layers) :
                ~HasKey(generated_features, l) \/ ~HasKey(style_grams, l)
       THEN Raise("KeyError") /\ UNCHANGED <<content_loss, style_loss, total_loss, hist>>
       ELSE LET cl == ContentLossOf(generated_features, content_features)
                sl == StyleLossOf(generated_features, style_grams)
                tl == TotalLossOf(content_weight, cl, style_weight, sl)
            IN  /\ content_loss' = cl
                /\ style_loss' = sl
                /\ total_loss' = tl
                /\ hist' = [hist EXCEPT
                              !.diverged_at =
                                  IF @ = 0 /\ (~Finite(cl) \/ ~Finite(sl) \/ ~Finite(tl))
                                  THEN step ELSE @,
                              !.gen_grams = @ + Len(style_layers)]      \* line 68
                /\ pc' = "zero_grad"
                /\ UNCHANGED error
    /\ UNCHANGED <<loadVars, gramVars, pairVars, appVars, args, heap, content, style, generated, vgg, optimizer,
                   style_features, content_features, style_grams, generated_features,
                   step, final_img>>

\* optimizer.zero_grad() on one parameter: its .grad is dropped
ZeroGradKeeping(h) == h
zero_grad(h) == [h EXCEPT !.grad = <<>>]

\* line 75: optimizer.zero_grad()
ZeroGrad ==
    /\ pc = "zero_grad"
    /\ generated' = IF generated.ref \in Range(optimizer.params)
                    THEN zero_grad(generated) ELSE generated
    /\ pc' = "backward"
    /\ UNCHANGED <<loadVars, gramVars, pairVars, appVars, args, heap, content, style, vgg, optimizer,
                   style_features, content_features, style_grams, generated_features,
                   content_loss, style_loss, total_loss, step, final_img, error, hist>>

\* line 76: total_loss.backward() adds d total_loss / d generated to generated.grad
Backward ==
    /\ pc = "backward"
    /\ LET g == backward(content_weight, style_weight, generated_features,
                         content_features, style_grams)
           n == generated.size[2]
       IN  generated' = [generated EXCEPT !.grad =
               [i \in 1..n |-> IF generated.grad = <<>> THEN g
                               ELSE FAdd(generated.grad[i], g)]]
    /\ pc' = "opt_step"
    /\ UNCHANGED <<loadVars, gramVars, pairVars, appVars, args, heap, content, style, vgg, optimizer,
                   style_features, content_features, style_grams, generated_features,
                   content_loss, style_loss, total_loss, step, final_img, error, hist>>

\* line 77: optimizer.step() updates its parameters in place
OptStep ==
    /\ pc = "opt_step"
    /\ heap' = [r \in Storages |->
                  IF r \in Range(optimizer.params) /\ generated.ref = r /\ generated.grad # <<>>
                  THEN [i \in DOMAIN heap[r] |->
                           adam_step(heap[r][i], generated.grad[i], optimizer.lr)]
                  ELSE heap[r]]
    /\ optimizer' = [optimizer EXCEPT !.t = @ + 1]
    /\ hist' = [hist EXCEPT !.steps_done = @ + 1]
    /\ pc' = "loop"
    /\ UNCHANGED <<loadVars, gramVars, pairVars, appVars, args, content, style, generated, vgg,
                   style_features, content_features, style_grams, generated_features,
                   content_loss, style_loss, total_loss, step, final_img, error>>

\* byte() without mul(255)
ToByteNoScale(x) ==
    IF Finite(x) THEN {x \div (255 * PixelUnits)} ELSE {0, 255}

\* ToPILImage on one float element: mul(255).byte().  A value outside the 8-bit
\* range (or not finite) has no defined conversion: any of the outcomes builds
\* produce (wrap, saturate, zero).
ToByte(x) ==
    IF Finite(x) /\ x >= 0 /\ x < 256 * PixelUnits THEN {x \div PixelUnits}
    ELSE IF Finite(x) THEN {0, 255, (x \div PixelUnits) % 256}
    ELSE {0, 255}

\* The tensor objects of lines 79-80, each with the operation that made it:
\* whether autograd tracks it, and its size
TensorOf(h) == [op |-> "generated", requires_grad |-> h.requires_grad, size |-> h.size]
TensorCpu(t) == [t EXCEPT !.op = "cpu"]          \* already on the CPU: the same tensor
TensorClone(t) == [t EXCEPT !.op = "clone"]      \* differentiable: tracked as its source
TensorSqueeze0(t) ==
    [t EXCEPT !.op = "squeeze",
              !.size = IF @ # <<>> /\ Head(@) = 1 THEN Tail(@) ELSE @]
TensorMul(t) == [t EXCEPT !.op = "mul"]          \* ToPILImage: pic.mul(255)
TensorByte(t) == [t EXCEPT !.op = "byte", !.requires_grad = FALSE]  \* integers: untracked

\* lines 79-82: final_img = transforms.ToPILImage()(generated.cpu().clone().squeeze(0))
Finalize ==
    /\ pc = "finalize"
    /\ LET t == ValueOf(generated, heap)
           t1 == TensorCpu(TensorOf(generated))
           t2 == TensorClone(t1)
           t3 == TensorSqueeze0(t2)                                     \* line 79
           t4 == TensorMul(t3)
           t5 == TensorByte(t4)                                         \* line 80
           c == t3.size[1]
       IN  /\ \E lv \in [1..c -> UNION {ToByte(t.data[i]) : i \in 1..c}] :
                  /\ \A i \in 1..c : lv[i] \in ToByte(t.data[i])
                  /\ final_img' = [image |-> TRUE, bands |-> c, h |-> t3.size[2],
                                   w |-> t3.size[3], levels |-> lv]
           /\ hist' = [hist EXCEPT !.finalize = <<t1, t2, t3, t4, t5>>]
    /\ pc' = "done"
    /\ UNCHANGED <<loadVars, gramVars, pairVars, appVars, args, heap, content, style, generated, vgg, optimizer,
                   style_features, content_features, style_grams, generated_features,
                   content_loss, style_loss, total_loss, step, error>>

RunNext ==
    \/ Call \/ LoadContent \/ LoadStyle \/ Setup \/ StyleFeatures \/ ContentFeatures
    \/ StyleGrams \/ LoopTest \/ Forward \/ Losses \/ ZeroGrad \/ Backward
    \/ OptStep \/ Finalize

----------------------------------------------------------------------------
(* load_image on its own *)

LoadInputs ==
    {PilImage(b, h, w, p) : b \in Bands, h \in 1..MaxLoadDim, w \in 1..MaxLoadDim, p \in {255}}

LoadInit ==
    /\ lin \in [img : LoadInputs, max_size : 1..MaxBound, called : {FALSE}]
    /\ lout = NoTensor

LoadCall ==
    /\ ~lin.called
    /\ lout' = load_image(lin.img, lin.max_size, <<>>)
    /\ lin' = [lin EXCEPT !.called = TRUE]

(* gram_matrix on its own *)

GramValues == {-1, 2}
GramShapes ==
    {s \in (1..MaxGramDim) \X (1..MaxGramDim) \X (1..MaxGramDim) : Prod(s) <= MaxGramElems}
\* with the batch dimension of 1, and without it
GramSizes == {<<1>> \o s : s \in GramShapes} \cup GramShapes
GramInputs ==
    UNION {{Tensor(sz, d) : d \in [1..Prod(sz) -> GramValues]} : sz \in GramSizes}

GramInit ==
    /\ gin \in [tensor : GramInputs, called : {FALSE}]
    /\ gout = NoTensor

GramCall ==
    /\ ~gin.called
    /\ gout' = gram_matrix(gin.tensor)
    /\ gin' = [gin EXCEPT !.called = TRUE]

----------------------------------------------------------------------------
(* Two invocations of run_style_transfer in one process (two threads).  Each has
   its own locals; the tensors of both live in the one memory of the process.
   The threads interleave between the statements of lines 49-82. *)

PairStorages == 1..6
Builds == {"wrap", "to_zero", "to_max"}

\* ToPILImage's byte() as one build does it: one of the outcomes of ToByte
ToByteBy(b, x) ==
    IF Finite(x) /\ x >= 0 /\ x < 256 * PixelUnits THEN x \div PixelUnits
    ELSE IF b = "to_zero" THEN 0
    ELSE IF b = "to_max" THEN 255
    ELSE IF Finite(x) THEN (x \div PixelUnits) % 256 ELSE 0

\* A new tensor gets storage that no live tensor has: the first free storage of
\* the allocating thread's arena
Arena(tid) == {u \in PairStorages : (u - 1) \div 3 = tid - 1}
FirstFree(m, tid) ==
    CHOOSE s \in Arena(tid) : m[s] = <<>> /\ \A u \in Arena(tid) : m[u] = <<>> => s <= u
\* generated kept in one module-level buffer
AllocGlobalGenerated(m, tid, role) ==
    IF role = "generated"
    THEN CHOOSE s \in PairStorages : \A u \in PairStorages : u <= s
    ELSE FirstFree(m, tid)
Alloc(m, tid, role) == FirstFree(m, tid)

\* StyleTransferModel() of line 53: every construction loads the same
\* pretrained weights, frozen, in eval mode
ModelRandomInit(id) ==
    [VggInit EXCEPT !.weights = [k \in FeatIdx |-> Weight0(FiltOf(k), PosOf(k)) + id]]
StyleTransferModelInit(id) == VggInit

\* the locals of invocation id at its first statement
NewRun(id, c_img, s_img, n, sw, cw) ==
    [id |-> id, pc |-> "load_content",
     content_img |-> c_img, style_img |-> s_img,
     num_steps |-> n, style_weight |-> sw, content_weight |-> cw,
     content |-> NoHandle, style |-> NoHandle, generated |-> NoHandle,
     vgg |-> VggInit, optimizer |-> [params |-> <<>>, lr |-> 0, t |-> 0],
     style_features |-> NoFeatures, content_features |-> NoFeatures,
     style_grams |-> NoFeatures, generated_features |-> NoFeatures,
     content_loss |-> 0, style_loss |-> 0, total_loss |-> 0,
     step |-> 0, final_img |-> NoImage, error |-> "none",
     trace |-> <<>>,    \* history: generated's value when made and after each Step
     calls |-> <<>>]    \* history: each extractor call, its input and its result

\* model(x) by invocation r: the result and the history of the call
CallModel(r, x, tracked) ==
    LET res == forward(r.vgg.weights, x, tracked)
    IN  [res |-> res,
         calls |-> Append(r.calls, [x |-> x.data, size |-> x.size,
                                    ok |-> res.ok, y |-> res.features])]

\* The statements of lines 49-82 as invocation r runs them on memory m (Finalize:
\* in build b): r's locals and the memory after the statement

\* line 49
StLoadContent(r, m) ==
    LET t == load_image(r.content_img, DefaultMaxSize, <<>>)
        id == Alloc(m, r.id, "content")
    IN  IF ~t.ok
        THEN [run |-> [r EXCEPT !.pc = "raised", !.error = t.err], mem |-> m]
        ELSE [run |-> [r EXCEPT !.pc = "load_style",
                                !.content = Handle(id, t.size)],
              mem |-> [m EXCEPT ![id] = t.data]]

\* line 50
StLoadStyle(r, m) ==
    LET t == load_image(r.style_img, DefaultMaxSize,
                        <<r.content.size[3], r.content.size[4]>>)
        id == Alloc(m, r.id, "style")
    IN  IF ~t.ok
        THEN [run |-> [r EXCEPT !.pc = "raised", !.error = t.err], mem |-> m]
        ELSE [run |-> [r EXCEPT !.pc = "clone", !.style = Handle(id, t.size)],
              mem |-> [m EXCEPT ![id] = t.data]]

\* lines 51-54
StSetup(r, m) ==
    LET id == CloneStorage(r.content.ref, Alloc(m, r.id, "generated"))
    IN  [run |-> [r EXCEPT !.pc = "style_features",
                     !.generated = requires_grad_(Handle(id, r.content.size), TRUE),
                     !.vgg = StyleTransferModelInit(r.id),
                     !.optimizer = [params |-> <<id>>, lr |-> LrUnits, t |-> 0],
                     !.trace = <<m[r.content.ref]>>],
         mem |-> [m EXCEPT ![id] = m[r.content.ref]]]

\* line 56
StStyleFeatures(r, m) ==
    LET c == CallModel(r, ValueOf(r.style, m), r.style.requires_grad)
    IN  [run |-> IF ~c.res.ok
                 THEN [r EXCEPT !.pc = "raised", !.error = c.res.err,
                                !.calls = c.calls]
                 ELSE [r EXCEPT !.pc = "content_features",
                                !.style_features = c.res.features,
                                !.calls = c.calls],
         mem |-> m]

\* line 57
StContentFeatures(r, m) ==
    LET c == CallModel(r, ValueOf(r.content, m), r.content.requires_grad)
    IN  [run |-> IF ~c.res.ok
                 THEN [r EXCEPT !.pc = "raised", !.error = c.res.err,
                                !.calls = c.calls]
                 ELSE [r EXCEPT !.pc = "style_grams",
                                !.content_features = c.res.features,
                                !.calls = c.calls],
         mem |-> m]

\* line 58
StStyleGrams(r, m) ==
    [run |-> IF \E l \in Range(style_layers) : ~HasKey(r.style_features, l)
             THEN [r EXCEPT !.pc = "raised", !.error = "KeyError"]
             ELSE [r EXCEPT !.pc = "loop",
                            !.style_grams = [l \in Range(style_layers) |->
                                               gram_matrix(r.style_features[l])]],
     mem |-> m]

\* line 60
StLoopTest(r, m) ==
    [run |-> IF RangeHasNext(r.step, r.num_steps)
             THEN [r EXCEPT !.pc = "forward", !.step = @ + 1]
             ELSE [r EXCEPT !.pc = "finalize"],
     mem |-> m]

\* line 61
StForward(r, m) ==
    LET c == CallModel(r, ValueOf(r.generated, m), r.generated.requires_grad)
    IN  [run |-> IF ~c.res.ok
                 THEN [r EXCEPT !.pc = "raised", !.error = c.res.err,
                                !.calls = c.calls]
                 ELSE [r EXCEPT !.pc = "losses",
                                !.generated_features = c.res.features,
                                !.calls = c.calls],
         mem |-> m]

\* lines 63-73
StLosses(r, m) ==
    [run |-> IF \/ ~HasKey(r.generated_features, "21")
                \/ ~HasKey(r.content_features, "21")
                \/ \E l \in Range(style_layers) :
                      ~HasKey(r.generated_features, l) \/ ~HasKey(r.style_grams, l)
             THEN [r EXCEPT !.pc = "raised", !.error = "KeyError"]
             ELSE LET cl == ContentLossOf(r.generated_features, r.content_features)
                      sl == StyleLossOf(r.generated_features, r.style_grams)
                  IN  [r EXCEPT !.pc = "zero_grad",
                                !.content_loss = cl,
                                !.style_loss = sl,
                                !.total_loss = TotalLossOf(r.content_weight, cl,
                                                           r.style_weight, sl)],
     mem |-> m]

\* line 75
StZeroGrad(r, m) ==
    [run |-> [r EXCEPT !.pc = "backward",
                       !.generated = IF @.ref \in Range(r.optimizer.params)
                                     THEN zero_grad(@) ELSE @],
     mem |-> m]

\* line 76
StBackward(r, m) ==
    LET g == backward(r.content_weight, r.style_weight, r.generated_features,
                      r.content_features, r.style_grams)
    IN  [run |-> [r EXCEPT !.pc = "opt_step",
                     !.generated.grad =
                         [i \in 1..r.generated.size[2] |->
                             IF r.generated.grad = <<>> THEN g
                             ELSE FAdd(r.generated.grad[i], g)]],
         mem |-> m]

\* line 77
StOptStep(r, m) ==
    LET m2 == [u \in DOMAIN m |->
                  IF u \in Range(r.optimizer.params) /\ r.generated.ref = u
                     /\ r.generated.grad # <<>>
                  THEN [i \in DOMAIN m[u] |->
                           adam_step(m[u][i], r.generated.grad[i], r.optimizer.lr)]
                  ELSE m[u]]
    IN  [run |-> [r EXCEPT !.pc = "loop",
                           !.optimizer.t = @ + 1,
                           !.trace = Append(@, m2[r.generated.ref])],
         mem |-> m2]

\* lines 79-82
StFinalize(r, m, b) ==
    LET t == ValueOf(r.generated, m)
        t3 == TensorSqueeze0(TensorClone(TensorCpu(TensorOf(r.generated))))
        c == t3.size[1]
    IN  [run |-> [r EXCEPT !.pc = "done",
                     !.final_img = [image |-> TRUE, bands |-> c,
                                    h |-> t3.size[2], w |-> t3.size[3],
                                    levels |-> [i \in 1..c |->
                                                  ToByteBy(b, t.data[i])]]],
         mem |-> m]

\* the next statement of invocation r
Stmt(r, m, b) ==
    CASE r.pc = "load_content" -> StLoadContent(r, m)
      [] r.pc = "load_style" -> StLoadStyle(r, m)
      [] r.pc = "clone" -> StSetup(r, m)
      [] r.pc = "style_features" -> StStyleFeatures(r, m)
      [] r.pc = "content_features" -> StContentFeatures(r, m)
      [] r.pc = "style_grams" -> StStyleGrams(r, m)
      [] r.pc = "loop" -> StLoopTest(r, m)
      [] r.pc = "forward" -> StForward(r, m)
      [] r.pc = "losses" -> StLosses(r, m)
      [] r.pc = "zero_grad" -> StZeroGrad(r, m)
      [] r.pc = "backward" -> StBackward(r, m)
      [] r.pc = "opt_step" -> StOptStep(r, m)
      [] r.pc = "finalize" -> StFinalize(r, m, b)
      [] OTHER -> [run |-> r, mem |-> m]

Ended(r) == r.pc \in {"done", "raised"}

\* the inputs of the two invocations: solid white or solid black content, the
\* style the other of the two
White == PilImage(3, 1, 1, 255)
Black == PilImage(3, 1, 1, 0)
PairArgs ==
    {<<White, Black>>, <<Black, White>>} \X (0..MaxPairSteps)
NewMem == [u \in PairStorages |-> <<>>]

PairInit ==
    /\ \E a \in [1..2 -> PairArgs] :
          runs = [i \in 1..2 |-> NewRun(i, a[i][1][1], a[i][1][2], a[i][2],
                                        DefaultStyleWeight, DefaultContentWeight)]
    /\ mem = NewMem
    /\ build \in Builds

\* thread i has run a statement, which gave n
Do(i, n) ==
    /\ runs' = [runs EXCEPT ![i] = n.run]
    /\ mem' = n.mem
    /\ UNCHANGED <<build, runVars, loadVars, gramVars, appVars>>

PairLoadContent ==
    \E i \in 1..2 : runs[i].pc = "load_content" /\ Do(i, StLoadContent(runs[i], mem))
PairLoadStyle ==
    \E i \in 1..2 : runs[i].pc = "load_style" /\ Do(i, StLoadStyle(runs[i], mem))
PairSetup ==
    \E i \in 1..2 : runs[i].pc = "clone" /\ Do(i, StSetup(runs[i], mem))
PairStyleFeatures ==
    \E i \in 1..2 : runs[i].pc = "style_features" /\ Do(i, StStyleFeatures(runs[i], mem))
PairContentFeatures ==
    \E i \in 1..2 : runs[i].pc = "content_features" /\ Do(i, StContentFeatures(runs[i], mem))
PairStyleGrams ==
    \E i \in 1..2 : runs[i].pc = "style_grams" /\ Do(i, StStyleGrams(runs[i], mem))
PairLoopTest ==
    \E i \in 1..2 : runs[i].pc = "loop" /\ Do(i, StLoopTest(runs[i], mem))
PairForward ==
    \E i \in 1..2 : runs[i].pc = "forward" /\ Do(i, StForward(runs[i], mem))
PairLosses ==
    \E i \in 1..2 : runs[i].pc = "losses" /\ Do(i, StLosses(runs[i], mem))
PairZeroGrad ==
    \E i \in 1..2 : runs[i].pc = "zero_grad" /\ Do(i, StZeroGrad(runs[i], mem))
PairBackward ==
    \E i \in 1..2 : runs[i].pc = "backward" /\ Do(i, StBackward(runs[i], mem))
PairOptStep ==
    \E i \in 1..2 : runs[i].pc = "opt_step" /\ Do(i, StOptStep(runs[i], mem))
PairFinalize ==
    \E i \in 1..2 : runs[i].pc = "finalize" /\ Do(i, StFinalize(runs[i], mem, build))

----------------------------------------------------------------------------
(* The gallery page of src/app.py (lines 179-379): the script of the masonry
   gallery and its modal viewer.  The page is rendered only when thumbs is not
   empty (line 180), and every record of thumbs has a thumbnail URL (line 160). *)

MaxItems == 3        \* items has 1..MaxItems records

None == "None"       \* Python's None, JavaScript's null
Truthy(v) == v # None /\ v # ""
\* JavaScript a || b
JsOr(a, b) == IF Truthy(a) THEN a ELSE b

\* JavaScript a % n keeps the sign of a
JsRem(a, n) == IF a >= 0 THEN a % n ELSE -((-a) % n)

\* records as lines 161-171 build them: a full record, one with nothing but the
\* thumbnail, one without a full-size image
SampleItems ==
    { [thumb |-> "a.jpg", full |-> "A.jpg", title |-> "Athena", artist |-> "Painter",
       date |-> "500 BC", medium |-> "Terracotta", objectURL |-> "met/1"],
      [thumb |-> "b.jpg", full |-> None, title |-> None, artist |-> "",
       date |-> None, medium |-> "", objectURL |-> None],
      [thumb |-> "c.jpg", full |-> None, title |-> "Zeus", artist |-> None,
       date |-> "", medium |-> "Bronze", objectURL |-> "met/3"] }

ItemLists == UNION {[1..n -> SampleItems] : n \in 1..MaxItems}

\* the elements of lines 291-307 as the HTML has them before any script runs
ModalClosed == [open |-> FALSE, aria_hidden |-> "true"]
NothingShown ==
    [src |-> "", title |-> "", artist |-> "", date |-> "", medium |-> "", href |-> "#"]

\* the script's state, as one value the handlers transform
Page == [curIndex |-> curIndex, modal |-> modal, shown |-> shown, threw |-> FALSE]

\* items[index] of a JavaScript array: undefined outside 0..length-1
HasItem(index) == index >= 0 /\ index < Len(items)

\* renderModal (lines 344-353): curIndex is assigned before the first property
\* of it is read, so an undefined it throws after the assignment
renderModal(p, index) ==
    IF ~HasItem(index)
    THEN [p EXCEPT !.curIndex = index, !.threw = TRUE]
    ELSE LET it == items[index + 1]
         IN [p EXCEPT !.curIndex = index,
                      !.shown = [src |-> JsOr(it.full, it.thumb),
                                 title |-> JsOr(it.title, "Untitled"),
                                 artist |-> JsOr(it.artist, "Unknown"),
                                 date |-> JsOr(it.date, ""),
                                 medium |-> JsOr(it.medium, ""),
                                 href |-> JsOr(it.objectURL, "#")]]

\* openModal (lines 355-359)
openModal(p, index) ==
    LET r == renderModal(p, index)
    IN IF r.threw THEN r
       ELSE [r EXCEPT !.modal = [open |-> TRUE, aria_hidden |-> "false"]]

\* closeModal (lines 360-363)
closeModal(p) == [p EXCEPT !.modal = [open |-> FALSE, aria_hidden |-> "true"]]

\* arrowLeft.onclick without the + items.length of line 364
ArrowLeftNoWrap(p) ==
    IF Len(items) > 0
    THEN renderModal(p, JsRem(p.curIndex - 1, Len(items)))
    ELSE p

\* arrowLeft.onclick (line 364)
arrowLeft_onclick(p) ==
    IF Len(items) > 0
    THEN renderModal(p, JsRem(p.curIndex - 1 + Len(items), Len(items)))
    ELSE p

\* arrowRight.onclick (line 365)
arrowRight_onclick(p) ==
    IF Len(items) > 0
    THEN renderModal(p, JsRem(p.curIndex + 1, Len(items)))
    ELSE p

\* modal.onclick (line 367): every click inside the modal bubbles up to it
modal_onclick(p, target) == IF target = "mModal" THEN closeModal(p) ELSE p

\* the keydown listener of the document (lines 368-374): three ifs in a row,
\* each on the state the one before left
keydown(p, key) ==
    IF ~p.modal.open THEN p
    ELSE LET p1 == IF key = "ArrowLeft"
                   THEN modal_onclick(arrowLeft_onclick(p), "arrowLeft") ELSE p
             p2 == IF key = "ArrowRight"
                   THEN modal_onclick(arrowRight_onclick(p1), "arrowRight") ELSE p1
         IN IF key = "Escape" THEN closeModal(p2) ELSE p2

Keys == {"ArrowLeft", "ArrowRight", "Escape", "Enter"}
NoEvent == [type |-> "none", key |-> "", target |-> ""]
Click(target) == [type |-> "click", key |-> "", target |-> target]
KeyDownEvent(key) == [type |-> "keydown", key |-> key, target |-> "document"]

\* the page after line 376: the script has run, nothing has been clicked
ModalInit ==
    /\ items \in ItemLists
    /\ curIndex = 0
    /\ modal = ModalClosed
    /\ shown = NothingShown
    /\ event = NoEvent

\* the handlers of one event have run to their end
Dispatch(e, p) ==
    /\ event' = e
    /\ curIndex' = p.curIndex
    /\ modal' = p.modal
    /\ shown' = p.shown
    /\ UNCHANGED <<items, fetchVars, runVars, loadVars, gramVars, pairVars>>

\* the script runs on a rendered page only (line 180: thumbs is not empty)
Rendered == items # <<>>

\* a click on the thumbnail of items[idx] (line 322)
ThumbClick ==
    /\ Rendered
    /\ \E idx \in 0..(Len(items) - 1) : Dispatch(Click("thumb"), openModal(Page, idx))

ArrowLeftClick ==
    /\ Rendered
    /\ Dispatch(Click("arrowLeft"), modal_onclick(arrowLeft_onclick(Page), "arrowLeft"))

ArrowRightClick ==
    /\ Rendered
    /\ Dispatch(Click("arrowRight"), modal_onclick(arrowRight_onclick(Page), "arrowRight"))

\* mClose.onclick (line 366), then the click bubbles to the modal
CloseClick ==
    /\ Rendered
    /\ Dispatch(Click("mClose"), modal_onclick(closeModal(Page), "mClose"))

\* a click on the backdrop, the modal element itself
BackdropClick ==
    /\ Rendered /\ modal.open
    /\ Dispatch(Click("mModal"), modal_onclick(Page, "mModal"))

\* a click on the image or the text of the open modal
ContentClick ==
    /\ Rendered /\ modal.open
    /\ Dispatch(Click("mContent"), modal_onclick(Page, "mContent"))

KeyDown ==
    /\ Rendered
    /\ \E key \in Keys : Dispatch(KeyDownEvent(key), keydown(Page, key))

----------------------------------------------------------------------------
(* The fetch loops of src/app.py: generate_aliases (lines 69-85), met_search_ids
   (lines 50-58) and the loop that gathers object IDs over the aliases of the
   chosen figure (lines 139-148; lines 463-472 and 811-818 are the same loop). *)

MaxIds == 2          \* object IDs are 1..MaxIds
MaxResultLen == 2    \* the MET search answers with at most this many IDs

\* MYTH_LIST (lines 33-38)
MYTH_LIST ==
    << "Zeus", "Hera", "Athena", "Apollo", "Artemis", "Aphrodite", "Hermes", "Dionysus",
       "Ares", "Hephaestus", "Poseidon", "Hades", "Demeter", "Persephone", "Hestia",
       "Heracles", "Perseus", "Achilles", "Odysseus", "Theseus", "Jason", "Medusa",
       "Minotaur", "Sirens", "Cyclops", "Centaur", "Prometheus", "Orpheus", "Eros",
       "Nike", "Hecate", "Atlas", "Pandora", "Narcissus", "Echo", "Rhea", "Cronus" >>

\* the dict of lines 70-78
mapping ==
    [name \in {"Athena", "Zeus", "Aphrodite", "Hermes", "Heracles", "Persephone", "Medusa"} |->
        CASE name = "Athena" -> <<"Pallas Athena", "Minerva">>
          [] name = "Zeus" -> <<"Jupiter">>
          [] name = "Aphrodite" -> <<"Venus">>
          [] name = "Hermes" -> <<"Mercury">>
          [] name = "Heracles" -> <<"Hercules">>
          [] name = "Persephone" -> <<"Proserpina">>
          [] name = "Medusa" -> <<"Gorgon">>]

\* mapping.get(name, [])
mapping_get(name) == IF name \in DOMAIN mapping THEN mapping[name] ELSE <<>>

\* lines 79-80: the list the loop of lines 82-84 walks
Candidates(name) ==
    (<<name>> \o mapping_get(name))
        \o <<name \o " myth", name \o " greek", name \o " mythology">>

\* lines 81-84, from element k on
RECURSIVE SeenLoop(_, _, _, _)
SeenLoop(key, k, seen, out) ==
    IF k > Len(key) THEN out
    ELSE IF key[k] \notin seen
         THEN SeenLoop(key, k + 1, seen \cup {key[k]}, Append(out, key[k]))
         ELSE SeenLoop(key, k + 1, seen, out)

\* generate_aliases (lines 69-85)
generate_aliases(name) == SeenLoop(Candidates(name), 1, {}, <<>>)

\* ids[:max_results]
Truncate(l, n) == SubSeq(l, 1, IF Len(l) < n THEN Len(l) ELSE n)

\* what the MET search can answer: any list of IDs, repeats included; a failed
\* request and an answer without objectIDs both give the empty list (lines 55-58)
Responses == UNION {[1..n -> 1..MaxIds] : n \in 0..MaxResultLen}

\* met_search_ids (lines 50-58), given the answer of the MET search
met_search_ids(response, n) == Truncate(response, n)

\* lines 145-146 without the test of line 145
AppendEvery(all, oid) == Append(all, oid)

\* lines 145-146
AppendNew(all, oid) == IF oid \notin Range(all) THEN Append(all, oid) ELSE all

\* the least and the default position of the sliders of lines 137 and 464, and
\* the fixed cap of line 815
MaxResultsChoices == {30, 40, 200}

\* the page before the button is pressed
FetchInit ==
    /\ selected \in Range(MYTH_LIST)
    /\ max_results \in MaxResultsChoices
    /\ aliases = <<>>
    /\ alias_i = 0
    /\ ids = <<>>
    /\ id_j = 0
    /\ all_ids = <<>>
    /\ fetch_pc = "button"

FetchFrame == UNCHANGED <<selected, max_results, modalVars, runVars, loadVars, gramVars, pairVars>>

\* lines 138-141
FetchStart ==
    /\ fetch_pc = "button"
    /\ aliases' = generate_aliases(selected)
    /\ all_ids' = <<>>
    /\ fetch_pc' = "loop"
    /\ UNCHANGED <<alias_i, ids, id_j>>
    /\ FetchFrame

\* lines 142-143: the next alias and its search
Search ==
    /\ fetch_pc = "loop"
    /\ id_j = Len(ids)
    /\ alias_i < Len(aliases)
    /\ \E response \in Responses :
          ids' = met_search_ids(response, max_results)
    /\ id_j' = 0
    /\ alias_i' = alias_i + 1
    /\ UNCHANGED <<aliases, all_ids, fetch_pc>>
    /\ FetchFrame

\* lines 144-146: the next ID of the search result
Visit ==
    /\ fetch_pc = "loop"
    /\ id_j < Len(ids)
    /\ all_ids' = AppendNew(all_ids, ids[id_j + 1])
    /\ id_j' = id_j + 1
    /\ UNCHANGED <<aliases, alias_i, ids, fetch_pc>>
    /\ FetchFrame

\* lines 148-149: the aliases are used up
FetchDone ==
    /\ fetch_pc = "loop"
    /\ id_j = Len(ids)
    /\ alias_i = Len(aliases)
    /\ fetch_pc' = "done"
    /\ UNCHANGED <<aliases, alias_i, ids, id_j, all_ids>>
    /\ FetchFrame

----------------------------------------------------------------------------
(* Specifications *)

PairIdle == runs = <<>> /\ mem = <<>> /\ build = "wrap"
ModalIdle ==
    /\ items = <<>> /\ curIndex = 0 /\ modal = ModalClosed
    /\ shown = NothingShown /\ event = NoEvent
FetchIdle ==
    /\ selected = "" /\ max_results = 0 /\ aliases = <<>> /\ alias_i = 0
    /\ ids = <<>> /\ id_j = 0 /\ all_ids = <<>> /\ fetch_pc = "idle"
AppIdle == ModalIdle /\ FetchIdle

LoadIdle == lin = [img |-> NotAnImage, max_size |-> 0, called |-> TRUE] /\ lout = NoTensor
GramIdle == gin = [tensor |-> NoTensor, called |-> TRUE] /\ gout = NoTensor
RunIdle ==
    /\ pc = "idle"
    /\ content_img = NotAnImage /\ style_img = NotAnImage
    /\ num_steps = 0 /\ style_weight = 0 /\ content_weight = 0
    /\ max_dimension = NotPassed
    /\ heap = [r \in Storages |-> <<>>]
    /\ content = NoHandle /\ style = NoHandle /\ generated = NoHandle
    /\ vgg = VggInit
    /\ optimizer = [params |-> <<>>, lr |-> 0, t |-> 0]
    /\ style_features = NoFeatures /\ content_features = NoFeatures
    /\ style_grams = NoFeatures /\ generated_features = NoFeatures
    /\ content_loss = 0 /\ style_loss = 0 /\ total_loss = 0
    /\ step = 0 /\ final_img = NoImage /\ error = "none"
    /\ hist = NoHistory

\* one invocation of run_style_transfer
Init == RunInit /\ LoadIdle /\ GramIdle /\ PairIdle /\ AppIdle
Next == RunNext
Spec == Init /\ [][Next]_vars

\* load_image applied to one input
LoadNext == LoadCall /\ UNCHANGED <<runVars, gramVars, pairVars, appVars>>
InitLoad == LoadInit /\ RunIdle /\ GramIdle /\ PairIdle /\ AppIdle
SpecLoad == InitLoad /\ [][LoadNext]_vars

\* two invocations of run_style_transfer, interleaved
PairNext ==
    \/ PairLoadContent \/ PairLoadStyle \/ PairSetup \/ PairStyleFeatures
    \/ PairContentFeatures \/ PairStyleGrams \/ PairLoopTest \/ PairForward
    \/ PairLosses \/ PairZeroGrad \/ PairBackward \/ PairOptStep \/ PairFinalize
InitPair == PairInit /\ RunIdle /\ LoadIdle /\ GramIdle /\ AppIdle
SpecPair == InitPair /\ [][PairNext]_vars

\* gram_matrix applied to one tensor
GramNext == GramCall /\ UNCHANGED <<runVars, loadVars, pairVars, appVars>>
InitGram == GramInit /\ RunIdle /\ LoadIdle /\ PairIdle /\ AppIdle
SpecGram == InitGram /\ [][GramNext]_vars

\* the gallery page: clicks and key presses, in any order
ModalNext ==
    \/ ThumbClick \/ ArrowLeftClick \/ ArrowRightClick \/ CloseClick
    \/ BackdropClick \/ ContentClick \/ KeyDown
InitModal == ModalInit /\ FetchIdle /\ RunIdle /\ LoadIdle /\ GramIdle /\ PairIdle
SpecModal == InitModal /\ [][ModalNext]_vars

\* one press of a fetch button
FetchNext == FetchStart \/ Search \/ Visit \/ FetchDone
InitFetch == FetchInit /\ ModalIdle /\ RunIdle /\ LoadIdle /\ GramIdle /\ PairIdle
SpecFetch == InitFetch /\ [][FetchNext]_vars

----------------------------------------------------------------------------
(* Claims *)

StepPcs == {"forward", "losses", "zero_grad", "backward", "opt_step"}
LoopPcs == StepPcs \cup {"loop"}
LossesKnown == pc \in {"zero_grad", "backward", "opt_step"}
Diverged == hist.diverged_at # 0

C1_Counts ==
    /\ hist.steps_done <= num_steps
    /\ step <= num_steps
    /\ pc \in LoopPcs => hist.steps_done \in {step, step - 1}
    /\ pc \in {"finalize", "done"} => hist.steps_done = num_steps /\ step = num_steps
    /\ pc = "raised" => step = 0 /\ hist.steps_done = 0
C1_Flow ==
    /\ pc = "loop" => \/ pc' = "forward" /\ step < num_steps /\ step' = step + 1
                      \/ pc' = "finalize" /\ hist.steps_done = num_steps
    /\ pc = "forward" => pc' = "losses"
    /\ pc = "losses" => pc' = "zero_grad"
    /\ pc = "zero_grad" => pc' = "backward"
    /\ pc = "backward" => pc' = "opt_step"
    /\ pc = "opt_step" => pc' = "loop" /\ hist'.steps_done = hist.steps_done + 1
    /\ pc = "finalize" => pc' = "done"
\* C1: the Step body runs exactly num_steps times and then Finalize follows:
\* never more than num_steps steps, Finalize only after num_steps completed
\* steps, and no way out of the loop (no exception, no early exit) but the
\* loop test after num_steps completed steps.
C1_ExactlyNSteps == []C1_Counts /\ [][C1_Flow]_vars
C1_Witness == pc = "done" /\ num_steps >= 2 /\ hist.steps_done = num_steps

\* C2 (as claimed): once a loss is non-finite at step k, the run stops at step k
\* (no gradient step, no further iteration) and reports a DivergenceError.
C2_StopsOnDivergence ==
    Diverged =>
        /\ step = hist.diverged_at
        /\ pc \in {"zero_grad", "raised"}
        /\ pc = "raised" => error = "DivergenceError"

\* C3 (as claimed): a run ends with an image after all num_steps steps and no
\* failure, or with an error and no image; a run in which a loss was non-finite
\* returns no image.
C3_AllOrNothing ==
    /\ pc = "done" => final_img.image /\ error = "none"
                      /\ hist.steps_done = num_steps /\ ~Diverged
    /\ pc = "raised" => ~final_img.image /\ error # "none"
    /\ final_img.image => pc = "done"

\* C4 (as claimed): an input that is not an image ends the run with a
\* DecodeError, before any Step and before any extractor call on generated.
C4_DecodeError ==
    (pc \in {"done", "raised"} /\ (~content_img.image \/ ~style_img.image)) =>
        /\ pc = "raised"
        /\ error = "DecodeError"
        /\ step = 0
        /\ \A i \in DOMAIN hist.calls : hist.calls[i] # "generated"

\* C5 (as claimed): without a target shape, the larger side of the result is at
\* most max_size and the aspect ratio h : w is kept.
C5_LargerSideBounded ==
    (lin.called /\ lout.ok) =>
        /\ Max(lout.size[3], lout.size[4]) <= lin.max_size
        /\ lout.size[3] * lin.img.w = lout.size[4] * lin.img.h

\* C6: from the end of Init through Finalize, style and generated have the
\* (height, width) of content, and so has the returned image.
C6_SameHeightWidth ==
    /\ pc \in LoopPcs \cup {"style_features", "content_features", "style_grams",
                            "finalize", "done"} =>
          /\ <<style.size[3], style.size[4]>> = <<content.size[3], content.size[4]>>
          /\ <<generated.size[3], generated.size[4]>> = <<content.size[3], content.size[4]>>
    /\ pc = "done" => <<final_img.h, final_img.w>> = <<content.size[3], content.size[4]>>
C6_Witness ==
    /\ pc = "done"
    /\ content_img.h > content_img.w
    /\ style_img.h < style_img.w
    /\ hist.steps_done >= 1

\* C7: with num_steps = 0 the returned image has the pixels of the loaded
\* content image (generated equals content), whatever the style and the weights.
C7_ZeroStepsIdentity ==
    (pc = "done" /\ num_steps = 0) =>
        /\ heap[generated.ref] = heap[content.ref]
        /\ final_img.bands = content.size[2]
        /\ \A i \in 1..final_img.bands : final_img.levels[i] = content_img.level
C7_Witness ==
    /\ pc = "done" /\ num_steps = 0
    /\ content_img.level = 255 /\ style_img.level = 0
    /\ style_weight = FMax

\* C8: a Step changes only generated and the optimizer: content, style, the
\* cached activations and Gram matrices and the extractor's weights stay as they
\* were, and generated does not share content's (or style's) storage.
C8_Kept ==
    /\ content' = content /\ style' = style
    /\ heap'[content.ref] = heap[content.ref]
    /\ heap'[style.ref] = heap[style.ref]
    /\ content_features' = content_features
    /\ style_features' = style_features
    /\ style_grams' = style_grams
    /\ vgg' = vgg
    /\ generated.ref \notin {content.ref, style.ref}
C8_StepFrame == [][(pc \in StepPcs) => C8_Kept]_vars
C8_Witness ==
    /\ pc = "done" /\ hist.steps_done >= 1
    /\ heap[generated.ref] # heap[content.ref]
    /\ heap[content.ref] = [i \in 1..content.size[2] |-> ToTensor(content_img.level)]

\* C9: total_loss = content_weight * content_loss + style_weight * style_loss,
\* content_loss from layer '21' alone, style_loss the sum of one Gram-difference
\* term for each of the layers '0', '5', '10', '19', '28'.
C9_GramEntry(t, i, j) ==
    FSum([p \in 1..(t.size[3] * t.size[4]) |->
            FMul(t.data[(i - 1) * t.size[3] * t.size[4] + p],
                 t.data[(j - 1) * t.size[3] * t.size[4] + p])])
C9_LayerTerm(l) ==
    LET t == generated_features[l]
        n == t.size[2]
    IN  Mean([k \in 1..(n * n) |->
            Sq(FSub(C9_GramEntry(t, ((k - 1) \div n) + 1, ((k - 1) % n) + 1),
                    style_grams[l].data[k]))])
C9_TotalLoss ==
    LossesKnown =>
        /\ total_loss = FAdd(FMul(content_weight, content_loss),
                             FMul(style_weight, style_loss))
        /\ content_loss =
              Mean([k \in DOMAIN generated_features["21"].data |->
                      Sq(FSub(generated_features["21"].data[k],
                              content_features["21"].data[k]))])
        /\ style_loss =
              FAdd(FAdd(FAdd(FAdd(FAdd(0, C9_LayerTerm("0")), C9_LayerTerm("5")),
                             C9_LayerTerm("10")), C9_LayerTerm("19")), C9_LayerTerm("28"))
C9_Witness ==
    /\ LossesKnown
    /\ Finite(total_loss)
    /\ content_loss > 0
    /\ style_loss > 0
    /\ C9_LayerTerm("28") > 0

\* C10 (as claimed): for every activation tensor of shape (channels, height,
\* width), with the batch dimension of 1 or without it, gram_matrix returns the
\* channels x channels matrix of the sums over all positions of T[i][p] * T[j][p].
C10_Shape(sz) == IF Len(sz) = 4 THEN Tail(sz) ELSE sz
C10_IsGram(t, g) ==
    LET sh == C10_Shape(t.size)
        n == sh[1]
        hw == sh[2] * sh[3]
        T(i, q) == t.data[(i - 1) * hw + q]
        RECURSIVE dot(_, _, _)
        dot(i, j, q) == IF q = 0 THEN 0 ELSE T(i, q) * T(j, q) + dot(i, j, q - 1)
    IN  /\ g.ok
        /\ g.size = <<n, n>>
        /\ \A i \in 1..n, j \in 1..n : g.data[(i - 1) * n + j] = dot(i, j, hw)
C10_GramAnyRank == gin.called => C10_IsGram(gin.tensor, gout)

\* C10 (amended): for every activation tensor of size (1, channels, height,
\* width) gram_matrix returns that matrix, not normalised; a tensor without the
\* batch dimension is rejected (the unpacking of line 21 raises).
C10_GramBatchOfOne ==
    gin.called =>
        IF Len(gin.tensor.size) = 4
        THEN C10_IsGram(gin.tensor, gout)
        ELSE ~gout.ok /\ gout.err = "ValueError"
C10_Witness ==
    /\ gin.called
    /\ gin.tensor.size = <<1, 2, 2, 2>>
    /\ gout.ok
    /\ gout.data = <<16, -2, -2, 7>>

\* C11: every feature map the extractor returns (for style, for content, and for
\* generated at every Step) has exactly the keys '0', '5', '10', '19', '28' and
\* '21', each with an activation tensor, so no lookup of lines 58-69 fails.
C11_Keys == {"0", "5", "10", "19", "28", "21"}
C11_IsFeatureMap(f) == DOMAIN f = C11_Keys /\ \A k \in C11_Keys : f[k].ok
C11_FeatureKeys ==
    /\ "style" \in Range(hist.calls) /\ ~(pc = "raised" /\ Len(hist.calls) = 1) =>
          C11_IsFeatureMap(style_features)
    /\ "content" \in Range(hist.calls) /\ pc # "raised" =>
          C11_IsFeatureMap(content_features)
    /\ pc \in {"losses", "zero_grad", "backward", "opt_step"} =>
          C11_IsFeatureMap(generated_features)
    /\ generated_features # NoFeatures => C11_IsFeatureMap(generated_features)
    /\ pc \in LoopPcs => \A l \in {"0", "5", "10", "19", "28"} : l \in DOMAIN style_grams
    /\ error # "KeyError"
C11_Witness ==
    /\ pc = "zero_grad" /\ step = 2
    /\ Len(hist.calls) = 4
    /\ C11_IsFeatureMap(generated_features)

\* C12 (as claimed): for every image, of 1, 3 or 4 bands, load_image returns a
\* tensor of size (1, 3, height, width).
C12_ThreeChannels ==
    (lin.called /\ lin.img.image) =>
        /\ lout.ok
        /\ Len(lout.size) = 4
        /\ lout.size[1] = 1
        /\ lout.size[2] = 3

\* C13 (as claimed): an extractor call on a tensor whose channel count is not 3
\* ends with a ShapeError, raised before any module of the network is applied.
C13_ShapeError ==
    (pc = "raised" /\ hist.calls # <<>>) =>
        /\ error = "ShapeError"
        /\ hist.raised_in = ""

\* C14 (as claimed): run_style_transfer takes num_steps (200), style_weight
\* (1e6), content_weight (1) and max_dimension (512), and a max_dimension the
\* caller passes bounds the larger side of the loaded content image.
C14_MaxDimensionOption ==
    /\ Defaults.num_steps = 200
    /\ Defaults.style_weight = 1000000
    /\ Defaults.content_weight = 1
    /\ (max_dimension # NotPassed /\ pc # "call") =>
          /\ error # "TypeError"
          /\ content.ref # 0 =>
                Max(content.size[3], content.size[4]) <= max_dimension

\* C18: a run with N steps calls the extractor N + 2 times: on style, then on
\* content, both before the first Step, then once in each Step on generated.
\* The five style Gram matrices are computed once, before the first Step, and
\* never again; generated's five are computed anew in every Step.
C18_Counts ==
    /\ pc \in {"call", "load_content", "load_style", "clone", "style_features"} =>
          hist.calls = <<>>
    /\ pc \in {"content_features", "style_grams"} =>
          /\ hist.calls = SubSeq(<<"style", "content">>, 1, Len(hist.calls))
          /\ hist.grams = 0
    /\ pc \notin LoopPcs => step \in {0, num_steps}
    /\ pc \notin LoopPcs \cup {"finalize", "done"} => hist.gen_grams = 0
    /\ pc \in LoopPcs \cup {"finalize", "done"} =>
          /\ Len(hist.calls) = 2 + (IF pc = "forward" THEN step - 1 ELSE step)
          /\ hist.calls[1] = "style" /\ hist.calls[2] = "content"
          /\ \A i \in 3..Len(hist.calls) : hist.calls[i] = "generated"
          /\ hist.grams = 5
          /\ DOMAIN style_grams = {"0", "5", "10", "19", "28"}
          /\ hist.gen_grams = 5 * (IF pc \in {"forward", "losses"} THEN step - 1 ELSE step)
    /\ pc = "done" => Len(hist.calls) = num_steps + 2 /\ hist.gen_grams = 5 * num_steps
C18_Frame ==
    pc \in LoopPcs =>
        /\ style_grams' = style_grams
        /\ hist'.grams = hist.grams
        /\ pc = "forward" <=> Len(hist'.calls) = Len(hist.calls) + 1
        /\ pc = "losses" <=> hist'.gen_grams = hist.gen_grams + 5
C18_ExtractorCalls == []C18_Counts /\ [][C18_Frame]_vars
C18_Witness ==
    /\ pc = "done" /\ num_steps = 2
    /\ hist.calls = <<"style", "content", "generated", "generated">>
    /\ hist.grams = 5 /\ hist.gen_grams = 10

\* C19: in every Step the order is extractor call, losses, zero_grad, backward,
\* optimizer step; the gradient the optimizer applies is the one of total_loss at
\* generated's current value alone (nothing of an earlier Step is left in it);
\* and the one optimizer made in Init, holding generated, takes every step.
C19_Gradient ==
    LET gf == forward(vgg.weights, ValueOf(generated, heap), TRUE).features
    IN  backward(content_weight, style_weight, gf, content_features, style_grams)
C19_State ==
    /\ pc = "backward" => generated.grad = <<>>
    /\ pc = "opt_step" =>
          generated.grad = [i \in 1..generated.size[2] |-> C19_Gradient]
    /\ pc \in LoopPcs \cup {"finalize", "done"} =>
          /\ optimizer.params = <<generated.ref>>
          /\ optimizer.lr = LrUnits
          /\ optimizer.t = hist.steps_done
C19_Flow ==
    /\ pc = "forward" => pc' = "losses" /\ generated' = generated /\ heap' = heap
    /\ pc = "losses" => pc' = "zero_grad" /\ generated' = generated
    /\ pc = "zero_grad" => pc' = "backward" /\ heap' = heap
    /\ pc = "backward" => pc' = "opt_step" /\ heap' = heap
    /\ pc = "opt_step" => pc' = "loop" /\ optimizer'.t = optimizer.t + 1
    /\ pc \in LoopPcs => optimizer'.params = optimizer.params
C19_StepOrder == []C19_State /\ [][C19_Flow]_vars
C19_Witness ==
    /\ pc = "opt_step" /\ step = 2
    /\ generated.grad[1] # 0 /\ Finite(generated.grad[1])
    /\ heap[generated.ref] # heap[content.ref]

\* C20 (as claimed): generated is tracked by autograd from its creation through
\* the last Step, and Finalize detaches it first: the tensor whose batch
\* dimension is removed, and the one converted, are no longer tracked.
C20_TrackedPcs ==
    LoopPcs \cup {"style_features", "content_features", "style_grams", "finalize"}
RECURSIVE C15_RunToEnd(_, _, _)
C15_RunToEnd(r, m, b) ==
    IF Ended(r) THEN r
    ELSE LET n == Stmt(r, m, b) IN C15_RunToEnd(n.run, n.mem, b)
C15_Alone(i) ==
    C15_RunToEnd(NewRun(i, runs[i].content_img, runs[i].style_img, runs[i].num_steps,
                        runs[i].style_weight, runs[i].content_weight),
                 NewMem, build)
C15_Owned(i) == {runs[i].content.ref, runs[i].style.ref, runs[i].generated.ref} \ {0}
C15_State ==
    /\ C15_Owned(1) \cap C15_Owned(2) = {}
    /\ \A i \in 1..2 :
          /\ Range(runs[i].optimizer.params) \subseteq {runs[i].generated.ref}
          /\ runs[i].vgg.weights = VggInit.weights /\ ~runs[i].vgg.requires_grad
          /\ runs[i].pc = "done" =>
                /\ runs[i].final_img = C15_Alone(i).final_img
                /\ runs[i].trace = C15_Alone(i).trace
C15_Step ==
    \A i \in 1..2 : \A j \in 1..2 \ {i} :
        runs'[i] # runs[i] =>
            /\ runs'[j] = runs[j]
            /\ \A u \in C15_Owned(j) : mem'[u] = mem[u]
C15_Isolation == []C15_State /\ [][C15_Step]_vars
C15_Witness ==
    /\ runs[1].pc = "done" /\ Len(runs[1].trace) = 2
    /\ runs[1].trace[2] # runs[1].trace[1]
    /\ runs[2].pc = "opt_step"
    /\ runs[2].content_img # runs[1].content_img

\* C16: two runs with the same arguments have the same generated value at
\* creation and after every Step and return the same image; and any two
\* extractor calls on the same input tensor give the same activations.
C16_Args(r) == <<r.content_img, r.style_img, r.num_steps, r.style_weight, r.content_weight>>
C16_AllCalls == {<<i, k>> : i \in 1..2, k \in 1..(3 + MaxPairSteps)}
C21_IsPrevious(e, wasOpen) ==
    \/ e.type = "click" /\ e.target = "arrowLeft"
    \/ e.type = "keydown" /\ e.key = "ArrowLeft" /\ wasOpen
C21_IsNext(e, wasOpen) ==
    \/ e.type = "click" /\ e.target = "arrowRight"
    \/ e.type = "keydown" /\ e.key = "ArrowRight" /\ wasOpen
C21_State ==
    items # <<>> =>
        /\ curIndex >= 0 /\ curIndex < Len(items)
        /\ arrowRight_onclick(arrowLeft_onclick(Page)).curIndex = curIndex
        /\ keydown(keydown(Page, "ArrowLeft"), "ArrowRight").curIndex = curIndex
        /\ shown # NothingShown =>
               shown.src \in {items[curIndex + 1].full, items[curIndex + 1].thumb}
\* event' is the event whose handlers this step ran
C21_Step ==
    /\ C21_IsPrevious(event', modal.open) =>
           /\ curIndex' = IF curIndex = 0 THEN Len(items) - 1 ELSE curIndex - 1
           /\ modal' = modal
    /\ C21_IsNext(event', modal.open) =>
           /\ curIndex' = IF curIndex = Len(items) - 1 THEN 0 ELSE curIndex + 1
           /\ modal' = modal
    /\ (event'.type = "keydown" /\ ~modal.open) =>
           /\ curIndex' = curIndex /\ modal' = modal /\ shown' = shown
C21_ModalIndex == []C21_State /\ [][C21_Step]_vars
\* the modal is open on the last of several items, which the previous arrow
\* reaches only by wrapping from index 0 when the modal was opened there
C21_Witness ==
    /\ Len(items) = MaxItems /\ modal.open
    /\ event = KeyDownEvent("ArrowLeft")
    /\ curIndex = Len(items) - 1
    /\ shown.src = JsOr(items[Len(items)].full, items[Len(items)].thumb)

(* C22: generate_aliases(name) returns, for every name, a list without
   duplicates whose first element is name and whose order is the order of
   first occurrence among the candidate aliases; and the loops that gather
   object IDs over the aliases keep all_ids free of duplicates whatever the
   searches return, every ID staying where it first appeared. *)
C22_NoDup(l) == \A a, b \in DOMAIN l : a # b => l[a] # l[b]
\* the elements of l[1..k] that no earlier element equals, in the order of l
RECURSIVE C22_FirstOccurrences(_, _)
C22_FirstOccurrences(l, k) ==
    IF k = 0 THEN <<>>
    ELSE IF \E j \in 1..(k - 1) : l[j] = l[k]
         THEN C22_FirstOccurrences(l, k - 1)
         ELSE Append(C22_FirstOccurrences(l, k - 1), l[k])
C22_AliasesOf(name, l) ==
    /\ l # <<>> /\ l[1] = name
    /\ C22_NoDup(l)
    /\ l = C22_FirstOccurrences(Candidates(name), Len(Candidates(name)))
\* names no selectbox offers: the empty name, an alias, a name ending as a suffix does
C22_OtherNames == {"", "Minerva", "Zeus myth"}
C22_State ==
    /\ fetch_pc \in {"loop", "done"} => C22_AliasesOf(selected, aliases)
    /\ \A name \in C22_OtherNames : C22_AliasesOf(name, generate_aliases(name))
    /\ C22_NoDup(all_ids)
    /\ \A k \in 1..id_j : ids[k] \in Range(all_ids)
C22_Step ==
    fetch_pc = "loop" =>
        /\ Len(all_ids') >= Len(all_ids)
        /\ SubSeq(all_ids', 1, Len(all_ids)) = all_ids
        /\ id_j' = id_j + 1 => Range(all_ids') = Range(all_ids) \cup {ids[id_j + 1]}
        /\ id_j' # id_j + 1 => all_ids' = all_ids
C22_NoDuplicates == []C22_State /\ [][C22_Step]_vars
\* Athena has mapped aliases; the first search gave ID 2, the second gave ID 1
\* twice, and the second 1 was passed over
C22_Witness ==
    /\ selected = "Athena" /\ Len(aliases) = 6 /\ aliases[2] = "Pallas Athena"
    /\ fetch_pc = "loop" /\ alias_i = 2
    /\ ids = <<1, 1>> /\ id_j = 2
    /\ all_ids = <<2, 1>>

====
